---- MODULE Spec2Model ----
(***************************************************************************)
(* Mastermind (src/main.py): codes, peg scores, the scorer get_peg_score,  *)
(* the minimax selector get_next_guess / get_min_eliminated and the three  *)
(* game loops run_game_cpu_cpu, run_game_human_human, run_game_cpu_human.  *)
(*                                                                         *)
(* Four specifications share the variables:                                *)
(*   SpecScore   one call of get_peg_score on a pair of codes              *)
(*   SpecSelect  one call of get_next_guess, element by element, the       *)
(*               element popped first and the iteration order of the set   *)
(*               both arbitrary                                            *)
(*   SpecSelectTwice  SpecSelect followed by a second call on the same     *)
(*               two sets                                                  *)
(*   Spec        the three game loops                                      *)
(* The alphabet is 1..NumColors; the source fixes six colours, the model   *)
(* is checked with a smaller alphabet (bound NumColors).                   *)
(***************************************************************************)
EXTENDS Integers, FiniteSets, Sequences, TLC

\* ------------------------------------------------------------------ bounds
\* size of the colour alphabet explored (main.py uses 6)
NumColors == 2
\* SpecSelect: largest candidate set / unguessed set passed to get_next_guess
MaxCandidates == 2
MaxUnguessed == 3
\* SpecSelect: the sets are drawn from the SelectPool lowest-numbered codes
SelectPool == 6
\* Spec: rounds explored of run_game_cpu_cpu, and of the two loops with a human
MaxRounds == 4
MaxHumanRounds == 2

\* ------------------------------------------------------------ class Code
\* Code.CODE_PEG_COLORS
CODE_PEG_COLORS == 1..NumColors

\* number of pegs of a code: _peg1 .. _peg4
CodeLen == 4

\* Code.to_number
to_number(c) == c[1] * 1000 + c[2] * 100 + c[3] * 10 + c[4]

\* Code.__eq__ (both operands are codes)
CodeEq(a, b) == to_number(a) = to_number(b)

\* Code.get_full_code_set
get_full_code_set ==
    {<<p1, p2, p3, p4>> : p1 \in CODE_PEG_COLORS, p2 \in CODE_PEG_COLORS,
                          p3 \in CODE_PEG_COLORS, p4 \in CODE_PEG_COLORS}

\* no code (Python None / unassigned local)
NoCode == <<>>

\* -------------------------------------------------------- class PegScore
\* the value standing for the exception 'Invalid peg score'
InvalidPegScore == [num_red |-> -1, num_white |-> -1]

\* no score yet
NoScore == [num_red |-> -2, num_white |-> -2]

\* PegScore.__init__
PegScore(num_red, num_white) ==
    IF \/ num_red + num_white > 4 \/ num_red + num_white < 0
       \/ num_red > 4 \/ num_red < 0
       \/ num_white > 4 \/ num_white < 0
    THEN InvalidPegScore
    ELSE [num_red |-> num_red, num_white |-> num_white]

\* every score PegScore.__init__ accepts (what get_peg_score_input can return)
AllPegScores ==
    {PegScore(r, w) : r \in 0..4, w \in 0..4} \ {InvalidPegScore}

\* the full match PegScore(num_red=4, num_white=0)
FullMatch == PegScore(4, 0)

\* ------------------------------------------------------- get_peg_score
\* Python's int(bool)
B2I(b) == IF b THEN 1 ELSE 0

Min(a, b) == IF a < b THEN a ELSE b

\* Counter([c._peg1, c._peg2, c._peg3, c._peg4])[color]
Occ(c, color) == Cardinality({i \in 1..CodeLen : c[i] = color})

\* the loop `for c in colors: white_ct += min(guess_occ, soln_occ)`
RECURSIVE WhiteLoop(_, _, _)
WhiteLoop(colors, guess_, soln_) ==
    IF colors = {} THEN 0
    ELSE LET c == CHOOSE x \in colors : TRUE
         IN  Min(Occ(guess_, c), Occ(soln_, c))
               + WhiteLoop(colors \ {c}, guess_, soln_)

\* mutant: the red pegs are not subtracted from the white count
get_peg_score_NoSubtract(guess_, soln_) ==
    LET red_ct == B2I(guess_[1] = soln_[1]) + B2I(guess_[2] = soln_[2])
                    + B2I(guess_[3] = soln_[3]) + B2I(guess_[4] = soln_[4])
        colors == {guess_[1], guess_[2], guess_[3], guess_[4]}
    IN  PegScore(red_ct, WhiteLoop(colors, guess_, soln_))

\* mutant: the white loop adds the occurrences in soln, not the minimum
RECURSIVE WhiteLoop_SolnOcc(_, _, _)
WhiteLoop_SolnOcc(colors, guess_, soln_) ==
    IF colors = {} THEN 0
    ELSE LET c == CHOOSE x \in colors : TRUE
         IN  Occ(soln_, c) + WhiteLoop_SolnOcc(colors \ {c}, guess_, soln_)

get_peg_score_SolnOcc(guess_, soln_) ==
    LET red_ct == B2I(guess_[1] = soln_[1]) + B2I(guess_[2] = soln_[2])
                    + B2I(guess_[3] = soln_[3]) + B2I(guess_[4] = soln_[4])
        colors == {guess_[1], guess_[2], guess_[3], guess_[4]}
        white_ct == WhiteLoop_SolnOcc(colors, guess_, soln_) - red_ct
    IN  PegScore(red_ct, white_ct)

\* mutant: the fourth peg is left out of the red count
get_peg_score_ThreePegs(guess_, soln_) ==
    LET red_ct == B2I(guess_[1] = soln_[1]) + B2I(guess_[2] = soln_[2])
                    + B2I(guess_[3] = soln_[3])
        colors == {guess_[1], guess_[2], guess_[3], guess_[4]}
        white_ct == WhiteLoop(colors, guess_, soln_) - red_ct
    IN  PegScore(red_ct, white_ct)

get_peg_score(guess_, soln_) ==
    LET red_ct == B2I(guess_[1] = soln_[1]) + B2I(guess_[2] = soln_[2])
                    + B2I(guess_[3] = soln_[3]) + B2I(guess_[4] = soln_[4])
        colors == {guess_[1], guess_[2], guess_[3], guess_[4]}
        white_ct == WhiteLoop(colors, guess_, soln_) - red_ct
    IN  PegScore(red_ct, white_ct)

\* --------------------------------------------------- get_min_eliminated
\* the value standing for the IndexError of Counter([]).most_common(1)[0]
IndexErrorValue == -1

RECURSIVE MaxOf(_)
MaxOf(S) ==
    LET x == CHOOSE y \in S : TRUE
    IN  IF S = {x} THEN x
        ELSE LET m == MaxOf(S \ {x}) IN IF x > m THEN x ELSE m

get_min_eliminated(code, candidates) ==
    IF candidates = {} THEN IndexErrorValue
    ELSE LET peg_scores == [s \in candidates |-> get_peg_score(code, s)]
             ctr(ps) == Cardinality({s \in candidates : peg_scores[s] = ps})
             max_hit_ct == MaxOf({ctr(peg_scores[s]) : s \in candidates})
         IN  Cardinality(candidates) - max_hit_ct

\* ------------------------------------------------------- get_next_guess
\* mutant: a strictly better code replaces best_code but its score is not recorded
LoopBody_StaleMax(b, m, u, candidates) ==
    LET min_eliminated == get_min_eliminated(u, candidates)
        keep == [best_code |-> b, max_min_eliminated |-> m]
    IN  IF min_eliminated > m
        THEN [best_code |-> u, max_min_eliminated |-> m]
        ELSE IF min_eliminated = m
        THEN IF b \in candidates /\ u \notin candidates
             THEN keep
             ELSE IF b \notin candidates /\ u \in candidates
             THEN [best_code |-> u, max_min_eliminated |-> m]
             ELSE IF to_number(u) < to_number(b)
             THEN [best_code |-> u, max_min_eliminated |-> m]
             ELSE keep
        ELSE keep

\* mutant: a tie is broken by the numeric encoding alone
LoopBody_NumberOnly(b, m, u, candidates) ==
    LET min_eliminated == get_min_eliminated(u, candidates)
        keep == [best_code |-> b, max_min_eliminated |-> m]
    IN  IF min_eliminated > m
        THEN [best_code |-> u, max_min_eliminated |-> min_eliminated]
        ELSE IF min_eliminated = m /\ to_number(u) < to_number(b)
        THEN [best_code |-> u, max_min_eliminated |-> m]
        ELSE keep

\* one pass of the body of `for u in unguessed` (lines 105-119): the new
\* (best_code, max_min_eliminated) after examining u
LoopBody(b, m, u, candidates) ==
    LET min_eliminated == get_min_eliminated(u, candidates)
        keep == [best_code |-> b, max_min_eliminated |-> m]
    IN  IF min_eliminated > m
        THEN [best_code |-> u, max_min_eliminated |-> min_eliminated]
        ELSE IF min_eliminated = m
        THEN IF b \in candidates /\ u \notin candidates
             THEN keep
             ELSE IF b \notin candidates /\ u \in candidates
             THEN [best_code |-> u, max_min_eliminated |-> m]
             ELSE IF to_number(u) < to_number(b)
             THEN [best_code |-> u, max_min_eliminated |-> m]
             ELSE keep
        ELSE keep

\* the whole for loop over the elements `rest`, from (b, m)
RECURSIVE ForLoop(_, _, _, _)
ForLoop(b, m, rest, candidates) ==
    IF rest = {} THEN [best_code |-> b, max_min_eliminated |-> m]
    ELSE LET u == CHOOSE x \in rest : TRUE
             r == LoopBody(b, m, u, candidates)
         IN  ForLoop(r.best_code, r.max_min_eliminated, rest \ {u}, candidates)

\* get_next_guess(solution_candidates, unguessed) when unguessed.pop() returns
\* `popped` and solution_candidates is not empty: the pair returned
get_next_guess(candidates, unguessed_, popped) ==
    ForLoop(popped, get_min_eliminated(popped, candidates),
            unguessed_ \ {popped}, candidates)

\* ------------------------------------------------------------- state
VARIABLES
    pc,                   \* position of the running function
    err,                  \* "" or the exception that ended it
    soln,                 \* the solution code (cpu codemaker) / reference code
    guess,                \* the code played / scored
    peg_score,            \* the score returned or entered
    solution_candidates,  \* the set solution_candidates
    unguessed,            \* the set unguessed
    aliased,              \* solution_candidates and unguessed are one object
    recommended_guess,    \* the current suggestion
    guess_num,            \* the round counter
    best_code,            \* get_next_guess: best_code
    max_min_eliminated,   \* get_next_guess: max_min_eliminated
    pending,              \* get_next_guess: elements the for loop has not reached
    mode,                 \* which function runs
    hist                  \* observations of the run, for the properties only

vars == <<pc, err, soln, guess, peg_score, solution_candidates, unguessed,
          aliased, recommended_guess, guess_num, best_code, max_min_eliminated,
          pending, mode, hist>>

\* hist.unguessed_in        get_next_guess: the unguessed set as passed in
\* hist.candidates_before   solution_candidates when the current round began
\* hist.unguessed_before    unguessed when the current round began
\* hist.played              the codes played (removed from unguessed) so far
\* hist.last_played         the code played in the current round
\* hist.rounds              number of codes played so far
\* hist.filtered            the current round has replaced solution_candidates
NoHist == [unguessed_in |-> {}, candidates_before |-> {}, unguessed_before |-> {},
           played |-> {}, last_played |-> NoCode, rounds |-> 0, filtered |-> FALSE]

\* ------------------------------------------------ SpecScore: one scoring
ScoreInit ==
    /\ mode = "score"
    /\ pc = "call"
    /\ err = ""
    /\ guess \in get_full_code_set
    /\ soln \in get_full_code_set
    /\ peg_score = NoScore
    /\ solution_candidates = {}
    /\ unguessed = {}
    /\ aliased = FALSE
    /\ recommended_guess = NoCode
    /\ guess_num = 0
    /\ best_code = NoCode
    /\ max_min_eliminated = 0
    /\ pending = {}
    /\ hist = NoHist

\* get_peg_score(guess, soln) returns, or PegScore.__init__ raises
Score ==
    /\ mode = "score"
    /\ pc = "call"
    /\ LET r == get_peg_score(guess, soln)
       IN  IF r = InvalidPegScore
           THEN /\ pc' = "raised"
                /\ err' = "Invalid peg score"
                /\ peg_score' = peg_score
           ELSE /\ pc' = "returned"
                /\ err' = err
                /\ peg_score' = r
    /\ UNCHANGED <<soln, guess, solution_candidates, unguessed, aliased,
                   recommended_guess, guess_num, best_code, max_min_eliminated,
                   pending, mode, hist>>

ScoreNext == Score

SpecScore == ScoreInit /\ [][ScoreNext]_vars

\* --------------------------------- SpecSelect: one call of get_next_guess
\* all subsets of U with at most k elements
RECURSIVE SubsetsUpTo(_, _)
SubsetsUpTo(U, k) ==
    IF k = 0 THEN {{}}
    ELSE LET P == SubsetsUpTo(U, k - 1)
         IN  P \cup {S \cup {x} : S \in P, x \in U}

\* the codes the sets of SelectInit are made of
SelectCodes ==
    {c \in get_full_code_set :
        Cardinality({d \in get_full_code_set : to_number(d) < to_number(c)}) < SelectPool}

SelectInit ==
    /\ mode = "select"
    /\ pc = "call"
    /\ err = ""
    /\ soln = NoCode
    /\ guess = NoCode
    /\ peg_score = NoScore
    /\ solution_candidates \in SubsetsUpTo(SelectCodes, MaxCandidates)
    /\ unguessed \in SubsetsUpTo(SelectCodes, MaxUnguessed)
    /\ aliased = FALSE
    /\ recommended_guess = NoCode
    /\ guess_num = 0
    /\ best_code = NoCode
    /\ max_min_eliminated = 0
    /\ pending = {}
    /\ hist = [NoHist EXCEPT !.unguessed_in = unguessed,
                             !.candidates_before = solution_candidates]

\* mutant: the emptiness test is missing and unguessed.pop() raises KeyError
SelectRaiseEmpty_NoGuard ==
    /\ mode = "select"
    /\ pc = "call"
    /\ unguessed = {}
    /\ pc' = "raised"
    /\ err' = "KeyError"
    /\ UNCHANGED <<soln, guess, peg_score, solution_candidates, unguessed, aliased,
                   recommended_guess, guess_num, best_code, max_min_eliminated,
                   pending, mode, hist>>

\* lines 98-99: raise Exception('Ran out of unguessed codes')
SelectRaiseEmpty ==
    /\ mode = "select"
    /\ pc = "call"
    /\ unguessed = {}
    /\ pc' = "raised"
    /\ err' = "Ran out of unguessed codes"
    /\ UNCHANGED <<soln, guess, peg_score, solution_candidates, unguessed, aliased,
                   recommended_guess, guess_num, best_code, max_min_eliminated,
                   pending, mode, hist>>

\* lines 101-102: best_code = unguessed.pop(), then its minimax score; with no
\* candidate get_min_eliminated raises IndexError
SelectPop ==
    /\ mode = "select"
    /\ pc = "call"
    /\ \E popped \in unguessed :
         /\ unguessed' = unguessed \ {popped}
         /\ best_code' = popped
         /\ IF solution_candidates = {}
            THEN /\ pc' = "raised"
                 /\ err' = "IndexError"
                 /\ UNCHANGED <<max_min_eliminated, pending>>
            ELSE /\ pc' = "loop"
                 /\ err' = err
                 /\ max_min_eliminated' = get_min_eliminated(popped, solution_candidates)
                 /\ pending' = unguessed \ {popped}
    /\ UNCHANGED <<soln, guess, peg_score, solution_candidates, aliased,
                   recommended_guess, guess_num, mode, hist>>

\* lines 104-119: the for loop reaches some element it has not examined yet
SelectExamine ==
    /\ mode = "select"
    /\ pc = "loop"
    /\ \E u \in pending :
         LET r == LoopBody(best_code, max_min_eliminated, u, solution_candidates)
         IN  /\ best_code' = r.best_code
             /\ max_min_eliminated' = r.max_min_eliminated
             /\ pending' = pending \ {u}
    /\ UNCHANGED <<pc, err, soln, guess, peg_score, solution_candidates, unguessed,
                   aliased, recommended_guess, guess_num, mode, hist>>

\* line 121: return best_code, max_min_eliminated
SelectReturn ==
    /\ mode = "select"
    /\ pc = "loop"
    /\ pending = {}
    /\ pc' = "returned"
    /\ UNCHANGED <<err, soln, guess, peg_score, solution_candidates, unguessed,
                   aliased, recommended_guess, guess_num, best_code,
                   max_min_eliminated, pending, mode, hist>>

SelectNext == SelectRaiseEmpty \/ SelectPop \/ SelectExamine \/ SelectReturn

SpecSelect == SelectInit /\ [][SelectNext]_vars

\* the caller keeps the code returned and calls get_next_guess a second time
\* with the same two set objects (as line 191 does with unguessed, round after
\* round): recommended_guess holds the first result, guess_num counts the
\* calls that returned
SelectAgain ==
    /\ mode = "select"
    /\ pc = "returned"
    /\ guess_num = 0
    /\ pc' = "call"
    /\ guess_num' = 1
    /\ recommended_guess' = best_code
    /\ best_code' = NoCode
    /\ max_min_eliminated' = 0
    /\ pending' = {}
    /\ hist' = [hist EXCEPT !.unguessed_in = unguessed]
    /\ UNCHANGED <<err, soln, guess, peg_score, solution_candidates, unguessed,
                   aliased, mode>>

SelectTwiceNext == SelectNext \/ SelectAgain

SpecSelectTwice == SelectInit /\ [][SelectTwiceNext]_vars


\* ------------------------------------------------- Spec: the game loops
\* range(1296) of run_game_cpu_cpu
RoundLimit == 1296

\* the opening guess Code([1, 1, 2, 2])
Opening == <<1, 1, 2, 2>>

\* mutant: the comprehension runs over the full code set, not the candidates
Filter_FromFullSet(candidates, g, ps) ==
    {s \in get_full_code_set : get_peg_score(g, s) = ps}

\* the list comprehension of lines 190, 257, 289
Filter(candidates, g, ps) == {s \in candidates : get_peg_score(g, s) = ps}

\* what get_guess_input can return that the model explores: the suggestion,
\* a code of one colour, or the code played in the round before
GuessInputs ==
    {recommended_guess}
      \cup {c \in get_full_code_set : c[1] = c[2] /\ c[2] = c[3] /\ c[3] = c[4]}
      \cup (IF hist.last_played = NoCode THEN {} ELSE {hist.last_played})

Init ==
    /\ mode \in {"cpu_cpu", "human_human", "cpu_human"}
    /\ pc = "AwaitingGuess"
    /\ err = ""
    /\ soln \in (IF mode = "human_human" THEN {NoCode} ELSE get_full_code_set)
    /\ guess = NoCode
    /\ peg_score = (IF mode = "cpu_cpu" THEN NoScore ELSE PegScore(0, 0))
    /\ solution_candidates = get_full_code_set
    /\ unguessed = get_full_code_set
    /\ aliased = TRUE
    /\ recommended_guess = Opening
    /\ guess_num = (IF mode = "cpu_cpu" THEN 1 ELSE 0)
    /\ best_code = NoCode
    /\ max_min_eliminated = 0
    /\ pending = {}
    /\ hist = [NoHist EXCEPT !.candidates_before = get_full_code_set,
                             !.unguessed_before = get_full_code_set]

\* unguessed.remove(g) of lines 184, 252, 283: KeyError when g is not in the
\* set; the set is also solution_candidates while the two names are aliased
Remove(g) ==
    /\ guess' = g
    /\ IF g \in unguessed
       THEN /\ unguessed' = unguessed \ {g}
            /\ solution_candidates' =
                 (IF aliased THEN solution_candidates \ {g} ELSE solution_candidates)
            /\ err' = err
            /\ hist' = [hist EXCEPT !.candidates_before = solution_candidates,
                                    !.unguessed_before = unguessed,
                                    !.played = @ \cup {g},
                                    !.last_played = g,
                                    !.rounds = @ + 1,
                                    !.filtered = FALSE]
       ELSE /\ err' = "KeyError"
            /\ UNCHANGED <<unguessed, solution_candidates, hist>>

\* the filtering and the call of get_next_guess that end a round (lines
\* 190-192, 257-260, 289-292): g is the code the comprehension scores, ps the
\* score of the round, next_pc where the loop goes when nothing is raised
FilterAndSelect(g, ps, next_pc) ==
    LET filtered == Filter(solution_candidates, g, ps)
    IN  /\ peg_score' = ps
        /\ solution_candidates' = filtered
        /\ aliased' = FALSE
        /\ hist' = [hist EXCEPT !.filtered = TRUE]
        /\ IF unguessed = {}
           THEN /\ pc' = "Error"
                /\ err' = "Ran out of unguessed codes"
                /\ UNCHANGED <<unguessed, recommended_guess, guess_num>>
           ELSE \E popped \in unguessed :
                  /\ unguessed' = unguessed \ {popped}
                  /\ IF filtered = {}
                     THEN /\ pc' = "Error"
                          /\ err' = "IndexError"
                          /\ UNCHANGED <<recommended_guess, guess_num>>
                     ELSE /\ recommended_guess' =
                               get_next_guess(filtered, unguessed, popped).best_code
                          /\ guess_num' = guess_num + 1
                          /\ pc' = next_pc
                          /\ err' = err

\* run_game_cpu_cpu, lines 182-189: the suggestion is played and scored
CpuCpuGuess ==
    /\ mode = "cpu_cpu"
    /\ pc = "AwaitingGuess"
    /\ hist.rounds < MaxRounds
    /\ IF hist.rounds >= RoundLimit
       THEN /\ pc' = "Error"
            /\ err' = "Timeout"
            /\ UNCHANGED <<guess, peg_score, solution_candidates, unguessed, hist>>
       ELSE /\ Remove(recommended_guess)
            /\ IF recommended_guess \notin unguessed
               THEN /\ pc' = "Error"
                    /\ peg_score' = peg_score
               ELSE /\ peg_score' = get_peg_score(recommended_guess, soln)
                    /\ pc' = (IF CodeEq(recommended_guess, soln)
                              THEN "Won" ELSE "AwaitingScore")
    /\ UNCHANGED <<soln, aliased, recommended_guess, guess_num, best_code,
                   max_min_eliminated, pending, mode>>

\* run_game_cpu_cpu, lines 190-192
CpuCpuFilter ==
    /\ mode = "cpu_cpu"
    /\ pc = "AwaitingScore"
    /\ FilterAndSelect(recommended_guess, peg_score, "AwaitingGuess")
    /\ UNCHANGED <<soln, guess, best_code, max_min_eliminated, pending, mode>>

\* run_game_human_human / run_game_cpu_human, lines 251-252, 282-283: the
\* player's guess is read and removed from unguessed
HumanGuess ==
    /\ mode \in {"human_human", "cpu_human"}
    /\ pc = "AwaitingGuess"
    /\ hist.rounds < MaxHumanRounds
    /\ \E g \in GuessInputs :
         /\ Remove(g)
         /\ pc' = (IF g \in unguessed THEN "AwaitingScore" ELSE "Error")
    /\ UNCHANGED <<soln, peg_score, aliased, recommended_guess, guess_num,
                   best_code, max_min_eliminated, pending, mode>>

\* run_game_human_human, lines 255-260 and the loop test of line 249: the
\* score is read, the candidates are filtered by the score of the SUGGESTED
\* guess, the next suggestion is selected
HumanHumanScore ==
    /\ mode = "human_human"
    /\ pc = "AwaitingScore"
    /\ \E ps \in AllPegScores :
         FilterAndSelect(recommended_guess, ps,
                         IF ps = FullMatch THEN "Won" ELSE "AwaitingGuess")
    /\ UNCHANGED <<soln, guess, best_code, max_min_eliminated, pending, mode>>

\* run_game_cpu_human, lines 286-292 and the loop test of line 280
CpuHumanScore ==
    /\ mode = "cpu_human"
    /\ pc = "AwaitingScore"
    /\ LET ps == get_peg_score(guess, soln)
       IN  FilterAndSelect(recommended_guess, ps,
                           IF ps = FullMatch THEN "Won" ELSE "AwaitingGuess")
    /\ UNCHANGED <<soln, guess, best_code, max_min_eliminated, pending, mode>>

Next ==
    \/ CpuCpuGuess
    \/ CpuCpuFilter
    \/ HumanGuess
    \/ HumanHumanScore
    \/ CpuHumanScore

Spec == Init /\ [][Next]_vars


\* =================================================================== claims
\* worst_case(u): |candidates| minus the size of the largest group of
\* candidates that share one score against u
WorstCase(u, candidates) ==
    LET groups == {{s \in candidates : get_peg_score(u, s) = get_peg_score(u, t)} :
                     t \in candidates}
        sizes == {Cardinality(G) : G \in groups}
    IN  Cardinality(candidates) - (CHOOSE n \in sizes : \A k \in sizes : k <= n)

Tied ==
    {u \in hist.unguessed_in :
        \A v \in hist.unguessed_in :
            WorstCase(v, solution_candidates) <= WorstCase(u, solution_candidates)}

\* the tied codes of the preferred membership class
Preferred ==
    IF Tied \cap solution_candidates # {} THEN Tied \cap solution_candidates ELSE Tied

\* C2: among the tied codes get_next_guess returns a member of candidates when
\* there is one, and the lowest-numbered code of the preferred class, whichever
\* element is popped first and in whichever order the others are examined.
C2_TieBreak ==
    (mode = "select" /\ pc = "returned") =>
        /\ best_code \in Preferred
        /\ \A u \in Preferred : to_number(best_code) <= to_number(u)

\* a call returned a candidate although a tied non-candidate has a lower number
C2_Witness ==
    /\ mode = "select" /\ pc = "returned"
    /\ best_code \in solution_candidates
    /\ \E y \in Tied : y \notin solution_candidates /\ to_number(y) < to_number(best_code)
    /\ \E x \in Preferred : x # best_code

\* red count of the scoring rule: positions where both codes carry one colour
SpecRed(g, r) == Cardinality({i \in 1..CodeLen : g[i] = r[i]})

\* occurrences of colour c in code g
SpecCount(g, c) == Len(SelectSeq(g, LAMBDA x : x = c))

\* sum over the colours 1..k that occur in g of min(occurrences in g, in r)
RECURSIVE SpecMatches(_, _, _)
SpecMatches(k, g, r) ==
    IF k = 0 THEN 0
    ELSE (IF SpecCount(g, k) > 0 THEN Min(SpecCount(g, k), SpecCount(r, k)) ELSE 0)
           + SpecMatches(k - 1, g, r)

\* C3: get_peg_score returns red = number of positions of equal colour and
\* white = (sum over the distinct colours c of guess of min(occurrences of c in
\* guess, occurrences of c in reference)) - red.
C3_ScoreFormula ==
    (mode = "score" /\ pc = "returned") =>
        /\ peg_score.num_red = SpecRed(guess, soln)
        /\ peg_score.num_white = SpecMatches(NumColors, guess, soln) - SpecRed(guess, soln)

\* a score with red and white pegs was returned for a guess with a repeated colour
C3_Witness ==
    /\ mode = "score" /\ pc = "returned"
    /\ peg_score.num_red = 2 /\ peg_score.num_white = 2
    /\ guess[1] = guess[2]


\* the game loops
InGame == mode \in {"cpu_cpu", "human_human", "cpu_human"}

\* C4: after each Filtering step the candidate set equals the previous
\* candidates whose score against the code actually played in that round is
\* the observed score.
C4_FilterByPlayed ==
    (InGame /\ hist.filtered) =>
        solution_candidates =
            {c \in hist.candidates_before :
                get_peg_score(hist.last_played, c) = peg_score}

\* C5: when the code played receives the full-match score the session is Won,
\* without an error, and returns the number of rounds played (1 when the opening
\* is the solution).
C5_FullMatchWins ==
    (InGame /\ peg_score = FullMatch) =>
        /\ pc = "Won"
        /\ err = ""
        /\ guess_num = hist.rounds

\* C6: a computer-vs-computer session never raises an error and never needs a
\* seventh round.
C6_CpuCpuNoErrorSixRounds ==
    mode = "cpu_cpu" => (err = "" /\ guess_num <= 6)

\* C7: when a round is complete, unguessed is the unguessed set the round began
\* with minus exactly the code played in the round.
C7_OneCodePerRound ==
    (InGame /\ pc = "AwaitingGuess" /\ hist.rounds >= 1) =>
        /\ hist.last_played \in hist.unguessed_before
        /\ unguessed = hist.unguessed_before \ {hist.last_played}

\* C8: unguessed.remove(guess) fails only for a code that was played in an
\* earlier round of the session.
C8_RemoveFailsOnlyOnReplay ==
    (InGame /\ err = "KeyError") => guess \in hist.played

\* C9: the candidate set after each Filtering step is a subset of the candidate
\* set the round began with, and the candidate set is always a subset of the
\* full code universe.
C9_CandidatesShrink ==
    InGame =>
        /\ hist.filtered => solution_candidates \subseteq hist.candidates_before
        /\ solution_candidates \subseteq get_full_code_set

\* the second filtering of a session with a human removed some but not all candidates
C9_Witness ==
    /\ mode = "human_human" /\ hist.filtered /\ hist.rounds = 2
    /\ solution_candidates # {}
    /\ solution_candidates # hist.candidates_before

\* C10: in a computer-vs-computer session the candidate set is strictly smaller
\* after every round that does not win.
C10_CpuCpuStrictlySmaller ==
    (mode = "cpu_cpu" /\ hist.filtered) =>
        Cardinality(solution_candidates) < Cardinality(hist.candidates_before)


\* C16: get_peg_score(a, b) equals get_peg_score(b, a), red and white.
C16_ScoreSymmetric ==
    (mode = "score" /\ pc = "returned") => peg_score = get_peg_score(soln, guess)

\* a score with red and white pegs was returned for two codes in which some
\* colour occurs a different number of times
C16_Witness ==
    /\ mode = "score" /\ pc = "returned"
    /\ peg_score.num_white > 0 /\ peg_score.num_red > 0
    /\ \E c \in CODE_PEG_COLORS : Occ(guess, c) # Occ(soln, c)

\* C17: get_peg_score never fails: red and white are not negative and
\* red + white <= 4, so PegScore.__init__ does not raise.
C17_ScoreNeverFails ==
    (mode = "score" /\ pc # "call") =>
        /\ pc = "returned"
        /\ err = ""
        /\ peg_score.num_red >= 0
        /\ peg_score.num_white >= 0
        /\ peg_score.num_red + peg_score.num_white <= 4

\* a score with four pegs, some of them white, was returned
C17_Witness ==
    /\ mode = "score" /\ pc = "returned"
    /\ peg_score.num_red + peg_score.num_white = 4
    /\ peg_score.num_white > 0

\* C18: get_peg_score(a, a) is (4 red, 0 white), and the full match is returned
\* only when guess and reference are the same code.
C18_FullMatchIffSame ==
    (mode = "score" /\ pc # "call") =>
        /\ guess = soln => (pc = "returned" /\ peg_score = FullMatch)
        /\ guess # soln => peg_score # FullMatch

\* a code of two colours was scored against itself
C18_Witness ==
    /\ mode = "score" /\ pc = "returned"
    /\ guess = soln /\ guess[1] # guess[4]
    /\ peg_score = FullMatch


\* C11: a second call of get_next_guess on the same two sets, right after the
\* first, returns the same code as the first.
C11_SecondCallSameCode ==
    (mode = "select" /\ guess_num = 1 /\ pc \in {"returned", "raised"}) =>
        /\ pc = "returned"
        /\ best_code = recommended_guess

\* C14: a selector call that fails (empty unguessed set, empty candidate set)
\* leaves the candidate set and the unguessed set as they were when it began.
C14_FailureLeavesState ==
    (mode = "select" /\ pc = "raised") =>
        /\ unguessed = hist.unguessed_in
        /\ solution_candidates = hist.candidates_before

\* C15: get_next_guess with an empty unguessed set fails with 'Ran out of
\* unguessed codes' for every candidate set, the empty one included, and
\* returns no code.
C15_EmptyUnguessedRaises ==
    (mode = "select" /\ hist.unguessed_in = {} /\ pc # "call") =>
        /\ pc = "raised"
        /\ err = "Ran out of unguessed codes"
        /\ best_code = NoCode

\* the call failed on an empty unguessed set and an empty candidate set
C15_Witness ==
    /\ mode = "select" /\ pc = "raised"
    /\ hist.unguessed_in = {} /\ solution_candidates = {}

\* C19: a call of get_next_guess that returns leaves unguessed and candidates
\* with exactly the codes they had before the call.
C19_ArgumentsUnchanged ==
    (mode = "select" /\ pc = "returned") =>
        /\ unguessed = hist.unguessed_in
        /\ solution_candidates = hist.candidates_before


\* C12: the candidate set and the unguessed set are independent containers:
\* removing the played guess from unguessed leaves the candidate set unchanged.
C12_RemoveLeavesCandidates ==
    (InGame /\ pc = "AwaitingScore") => solution_candidates = hist.candidates_before

\* C13: in run_game_human_human, whenever Filtering leaves the candidate set
\* empty the session signals the InconsistentFeedback error, not another error
\* raised inside guess selection.
C13_InconsistentFeedbackSignalled ==
    (mode = "human_human" /\ hist.filtered /\ solution_candidates = {}) =>
        (pc = "Error" /\ err = "InconsistentFeedback")

\* C20: with honest feedback the true solution is a candidate in every state
\* before Won, so get_next_guess is never called with an empty candidate set
\* (run_game_cpu_cpu and run_game_cpu_human).
C20_SolutionStaysCandidate ==
    (mode \in {"cpu_cpu", "cpu_human"} /\ pc # "Won") =>
        /\ soln \in solution_candidates
        /\ err # "IndexError"

====
